---- MODULE Spec2Model ----
(***************************************************************************)
(* Quality control registry: pieces are classified at construction,        *)
(* approved pieces are packed into boxes of fixed capacity, and the        *)
(* registry aggregates statistics.                                         *)
(*                                                                         *)
(* Representation.                                                         *)
(*  - A Python str is a tuple of one-character strings, so that lower(),   *)
(*    f-string formatting and the `in` substring test are computed.        *)
(*  - A float measurement is an integer count of thousandths (100.5 is     *)
(*    100500); repr() of such a float is computed by FormatFloat.          *)
(*  - A Piece object is an index into heap (its identity); lists of        *)
(*    pieces hold these references.  A Box object is its position in       *)
(*    boxes, which is only ever appended to.                               *)
(*  - A quotient of two numbers is the exact fraction in lowest terms.     *)
(***************************************************************************)
EXTENDS Integers, Sequences, FiniteSets, TLC

VARIABLES heap, pieces, boxes, next_id, result, call

vars == <<heap, pieces, boxes, next_id, result, call>>

-----------------------------------------------------------------------------
(* Bounds of the exploration *)

MaxRegs == 11

MaxRemoves == 1

MaxRejected == 1

MaxMixRegs == 2

MaxMixRemoves == 1

MaxPieceRegs == 2

MaxQueryRegs == 10

MaxQueryRemoves == 0

MaxBoxPieces == 1

MaxOrderRegs == 4

MaxOrderRemoves == 2

MaxStatsRegs == 3

MaxStatsRemoves == 1

-----------------------------------------------------------------------------
(* Program constants *)

MAX_CAPACITY == 10

MIN_WEIGHT == 95

MAX_WEIGHT == 105

MIN_LENGTH == 10

MAX_LENGTH == 20

\* thousandths per unit of a measurement
Milli == 10 * 10 * 10

None == "None"

-----------------------------------------------------------------------------
(* Strings *)

Str_azul == <<"a", "z", "u", "l">>

Str_verde == <<"v", "e", "r", "d", "e">>

Str_blue == <<"b", "l", "u", "e">>

Str_green == <<"g", "r", "e", "e", "n">>

Str_red == <<"r", "e", "d">>

Str_AZUL == <<"A", "Z", "U", "L">>

Str_Verde == <<"V", "e", "r", "d", "e">>

Str_Blue == <<"B", "l", "u", "e">>

Str_GREEN == <<"G", "R", "E", "E", "N">>

Str_Weight == <<"W", "e", "i", "g", "h", "t">>

Str_weight == <<"w", "e", "i", "g", "h", "t">>

Str_Color == <<"C", "o", "l", "o", "r">>

Str_color == <<"c", "o", "l", "o", "r">>

Str_Length == <<"L", "e", "n", "g", "t", "h">>

Str_length == <<"l", "e", "n", "g", "t", "h">>

UpperToLower ==
    ("A" :> "a") @@ ("B" :> "b") @@ ("C" :> "c") @@ ("D" :> "d") @@
    ("E" :> "e") @@ ("F" :> "f") @@ ("G" :> "g") @@ ("H" :> "h") @@
    ("I" :> "i") @@ ("J" :> "j") @@ ("K" :> "k") @@ ("L" :> "l") @@
    ("M" :> "m") @@ ("N" :> "n") @@ ("O" :> "o") @@ ("P" :> "p") @@
    ("Q" :> "q") @@ ("R" :> "r") @@ ("S" :> "s") @@ ("T" :> "t") @@
    ("U" :> "u") @@ ("V" :> "v") @@ ("W" :> "w") @@ ("X" :> "x") @@
    ("Y" :> "y") @@ ("Z" :> "z")

\* str.lower()
Lower(s) ==
    [i \in 1..Len(s) |->
        IF s[i] \in DOMAIN UpperToLower THEN UpperToLower[s[i]] ELSE s[i]]

\* needle in hay, for strings
Contains(hay, needle) ==
    \E i \in 1..(Len(hay) - Len(needle) + 1) :
        \A k \in 1..Len(needle) : hay[i + k - 1] = needle[k]

Digit(d) == <<"0", "1", "2", "3", "4", "5", "6", "7", "8", "9">>[d + 1]

RECURSIVE FormatInt(_)
\* f"{n}" of a non-negative int
FormatInt(n) ==
    IF n < 10 THEN <<Digit(n)>>
    ELSE FormatInt(n \div 10) \o <<Digit(n % 10)>>

RECURSIVE PadZeros(_, _)
PadZeros(s, width) ==
    IF Len(s) >= width THEN s ELSE PadZeros(<<"0">> \o s, width)

\* f"{n:04d}"
Format04d(n) == PadZeros(FormatInt(n), 4)

RECURSIVE StripZeros(_)
StripZeros(s) ==
    IF Len(s) > 1 /\ s[Len(s)] = "0" THEN StripZeros(SubSeq(s, 1, Len(s) - 1))
    ELSE s

\* f"{x}" of a positive float x given in thousandths: "50.0", "94.999"
FormatFloat(x) ==
    FormatInt(x \div Milli) \o <<".">>
        \o StripZeros(PadZeros(FormatInt(x % Milli), 3))

-----------------------------------------------------------------------------
(* Piece *)

color_map == (Str_azul :> Str_blue) @@ (Str_verde :> Str_green)

WeightReason(weight) ==
    <<"P", "e", "s", "o", " ", "f", "o", "r", "a", " ", "d", "o", " ",
      "p", "a", "d", "r", "ã", "o", " ", "(">>
    \o FormatFloat(weight)
    \o <<"g", " ", "-", " ", "e", "s", "p", "e", "r", "a", "d", "o", ":", " ">>
    \o FormatInt(MIN_WEIGHT) \o <<"g", "-">>
    \o FormatInt(MAX_WEIGHT) \o <<"g", ")">>

ColorReason(color) ==
    <<"C", "o", "r", " ", "i", "n", "v", "á", "l", "i", "d", "a", " ", "(">>
    \o color
    \o <<" ", "-", " ", "e", "s", "p", "e", "r", "a", "d", "o", ":", " ",
         "a", "z", "u", "l", " ", "o", "u", " ", "v", "e", "r", "d", "e", ")">>

LengthReason(length) ==
    <<"C", "o", "m", "p", "r", "i", "m", "e", "n", "t", "o", " ",
      "f", "o", "r", "a", " ", "d", "o", " ", "p", "a", "d", "r", "ã", "o",
      " ", "(">>
    \o FormatFloat(length)
    \o <<"c", "m", " ", "-", " ", "e", "s", "p", "e", "r", "a", "d", "o", ":", " ">>
    \o FormatInt(MIN_LENGTH) \o <<"c", "m", "-">>
    \o FormatInt(MAX_LENGTH) \o <<"c", "m", ")">>

\* the weight test with its lower bound exclusive
WeightOut_Exclusive(weight) ==
    weight <= MIN_WEIGHT * Milli \/ weight > MAX_WEIGHT * Milli

\* the weight rule fails
WeightOut(weight) ==
    weight < MIN_WEIGHT * Milli \/ weight > MAX_WEIGHT * Milli

\* the color rule fails
ColorOut(color) == color \notin {Str_blue, Str_green}

\* the length rule fails
LengthOut(length) ==
    length < MIN_LENGTH * Milli \/ length > MAX_LENGTH * Milli

\* "Normalize color to English"
NormalizeColor(p) ==
    IF p.color \in DOMAIN color_map
    THEN [p EXCEPT !.color = color_map[p.color]]
    ELSE p

\* "Check weight (95g to 105g)"
CheckWeight(p) ==
    IF WeightOut(p.weight)
    THEN [p EXCEPT !.approved = FALSE,
                   !.rejection_reasons = Append(@, WeightReason(p.weight))]
    ELSE p

\* "Check color (blue or green)"
CheckColor(p) ==
    IF ColorOut(p.color)
    THEN [p EXCEPT !.approved = FALSE,
                   !.rejection_reasons = Append(@, ColorReason(p.color))]
    ELSE p

\* CheckLength appending the reason without clearing approved
CheckLength_KeepsApproved(p) ==
    IF LengthOut(p.length)
    THEN [p EXCEPT !.rejection_reasons = Append(@, LengthReason(p.length))]
    ELSE p

\* "Check length (10cm to 20cm)"
CheckLength(p) ==
    IF LengthOut(p.length)
    THEN [p EXCEPT !.approved = FALSE,
                   !.rejection_reasons = Append(@, LengthReason(p.length))]
    ELSE p

\* _evaluate_quality stopping at the first failing rule
evaluate_quality_FirstFailure(p) ==
    LET p0 == NormalizeColor(
                  [p EXCEPT !.approved = TRUE, !.rejection_reasons = <<>>])
    IN  IF WeightOut(p0.weight) THEN CheckWeight(p0)
        ELSE IF ColorOut(p0.color) THEN CheckColor(p0)
        ELSE CheckLength(p0)

\* Piece._evaluate_quality
evaluate_quality(p) ==
    CheckLength(CheckColor(CheckWeight(NormalizeColor(
        [p EXCEPT !.approved = TRUE, !.rejection_reasons = <<>>]))))

\* Piece.__init__ storing the color as typed
Piece_NoLower(piece_id, weight, color, length) ==
    evaluate_quality([id |-> piece_id, weight |-> weight,
                      color |-> color, length |-> length,
                      approved |-> FALSE, rejection_reasons |-> <<>>])

\* Piece with one reasons list shared by every instance and never reset
Piece_SharedReasons(piece_id, weight, color, length) ==
    CheckLength(CheckColor(CheckWeight(NormalizeColor(
        [id |-> piece_id, weight |-> weight,
         color |-> Lower(color), length |-> length, approved |-> TRUE,
         rejection_reasons |->
             IF heap = <<>> THEN <<>>
             ELSE heap[Len(heap)].rejection_reasons]))))

\* Piece.__init__
Piece(piece_id, weight, color, length) ==
    evaluate_quality([id |-> piece_id, weight |-> weight,
                      color |-> Lower(color), length |-> length,
                      approved |-> FALSE, rejection_reasons |-> <<>>])

-----------------------------------------------------------------------------
(* Box *)

\* Box.__init__
Box(box_number) ==
    [number |-> box_number, pieces |-> <<>>, closed |-> FALSE,
     closing_date |-> None]

\* Box.close; now is datetime.now() formatted
Box_close(box, now) ==
    [box EXCEPT !.closed = TRUE, !.closing_date = now]

\* Box.add_piece with the capacity comparisons off by one
Box_add_piece_OneLate(box, piece, now) ==
    IF box.closed THEN [box |-> box, ret |-> FALSE]
    ELSE IF Len(box.pieces) <= MAX_CAPACITY
    THEN LET added == [box EXCEPT !.pieces = Append(@, piece)]
         IN  [box |-> IF Len(added.pieces) > MAX_CAPACITY
                      THEN Box_close(added, now) ELSE added,
              ret |-> TRUE]
    ELSE [box |-> box, ret |-> FALSE]

\* Box.add_piece closing the box one piece early
Box_add_piece_ClosesEarly(box, piece, now) ==
    IF box.closed THEN [box |-> box, ret |-> FALSE]
    ELSE IF Len(box.pieces) < MAX_CAPACITY
    THEN LET added == [box EXCEPT !.pieces = Append(@, piece)]
         IN  [box |-> IF Len(added.pieces) >= MAX_CAPACITY - 1
                      THEN Box_close(added, now) ELSE added,
              ret |-> TRUE]
    ELSE [box |-> box, ret |-> FALSE]

\* Box.add_piece without the test of the closed flag
Box_add_piece_IgnoresClosed(box, piece, now) ==
    IF Len(box.pieces) < MAX_CAPACITY
    THEN LET added == [box EXCEPT !.pieces = Append(@, piece)]
         IN  [box |-> IF Len(added.pieces) = MAX_CAPACITY
                      THEN Box_close(added, now) ELSE added,
              ret |-> TRUE]
    ELSE [box |-> box, ret |-> FALSE]

\* Box.add_piece putting the piece first in the box
Box_add_piece_Prepends(box, piece, now) ==
    IF box.closed THEN [box |-> box, ret |-> FALSE]
    ELSE IF Len(box.pieces) < MAX_CAPACITY
    THEN LET added == [box EXCEPT !.pieces = <<piece>> \o @]
         IN  [box |-> IF Len(added.pieces) = MAX_CAPACITY
                      THEN Box_close(added, now) ELSE added,
              ret |-> TRUE]
    ELSE [box |-> box, ret |-> FALSE]

\* Box.add_piece: the box afterwards and the value returned
Box_add_piece(box, piece, now) ==
    IF box.closed THEN [box |-> box, ret |-> FALSE]
    ELSE IF Len(box.pieces) < MAX_CAPACITY
    THEN LET added == [box EXCEPT !.pieces = Append(@, piece)]
         IN  [box |-> IF Len(added.pieces) = MAX_CAPACITY
                      THEN Box_close(added, now) ELSE added,
              ret |-> TRUE]
    ELSE [box |-> box, ret |-> FALSE]

\* piece in l, by identity
InList(l, piece) == \E i \in 1..Len(l) : l[i] = piece

\* l.pop(i), i counted from 1: the list without its i-th element
Pop(l, i) == SubSeq(l, 1, i - 1) \o SubSeq(l, i + 1, Len(l))

\* l.remove(piece): the list without the first occurrence of piece
ListRemove(l, piece) ==
    Pop(l, CHOOSE i \in 1..Len(l) :
              l[i] = piece /\ \A j \in 1..(i - 1) : l[j] # piece)

\* Box.remove_piece leaving a closed box closed
Box_remove_piece_StaysClosed(box, piece) ==
    IF InList(box.pieces, piece)
    THEN [box |-> [box EXCEPT !.pieces = ListRemove(@, piece)], ret |-> TRUE]
    ELSE [box |-> box, ret |-> FALSE]

\* Box.remove_piece reopening the box without clearing closing_date
Box_remove_piece_KeepsDate(box, piece) ==
    IF InList(box.pieces, piece)
    THEN LET removed == [box EXCEPT !.pieces = ListRemove(@, piece)]
         IN  [box |-> IF removed.closed
                      THEN [removed EXCEPT !.closed = FALSE]
                      ELSE removed,
              ret |-> TRUE]
    ELSE [box |-> box, ret |-> FALSE]

\* Box.remove_piece: the box afterwards and the value returned
Box_remove_piece(box, piece) ==
    IF InList(box.pieces, piece)
    THEN LET removed == [box EXCEPT !.pieces = ListRemove(@, piece)]
         IN  [box |-> IF removed.closed
                      THEN [removed EXCEPT !.closed = FALSE,
                                           !.closing_date = None]
                      ELSE removed,
              ret |-> TRUE]
    ELSE [box |-> box, ret |-> FALSE]

-----------------------------------------------------------------------------
(* QualityControlSystem *)

\* generate_piece_id numbering from the pieces now listed
generate_piece_id_FromCount(n) == <<"P">> \o Format04d(Len(pieces) + 1)

\* generate_piece_id: the identifier made from the counter
generate_piece_id(n) == <<"P">> \o Format04d(n)

\* _add_piece_to_box opening no new box
add_piece_to_box_NoNewBox(bxs, piece, now) ==
    LET cur == Len(bxs)
        added == Box_add_piece(bxs[cur], piece, now)
    IN  IF added.ret
        THEN [boxes |-> [bxs EXCEPT ![cur] = added.box],
              info |-> [box_closed |-> added.box.closed,
                        new_box_created |-> FALSE, current_box |-> cur]]
        ELSE [boxes |-> bxs,
              info |-> [box_closed |-> FALSE, new_box_created |-> FALSE]]

\* _add_piece_to_box opening a new box after every piece added
add_piece_to_box_AlwaysNewBox(bxs, piece, now) ==
    LET cur == Len(bxs)
        added == Box_add_piece(bxs[cur], piece, now)
        bxs1 == [bxs EXCEPT ![cur] = added.box]
    IN  IF added.ret
        THEN [boxes |-> Append(bxs1, Box(Len(bxs1) + 1)),
              info |-> [box_closed |-> added.box.closed,
                        new_box_created |-> TRUE, current_box |-> cur,
                        new_box |-> Len(bxs1) + 1]]
        ELSE [boxes |-> bxs1,
              info |-> [box_closed |-> FALSE, new_box_created |-> FALSE]]

\* _add_piece_to_box taking self.boxes[0] as the current box
add_piece_to_box_FirstBox(bxs, piece, now) ==
    LET cur == 1
        added == Box_add_piece(bxs[cur], piece, now)
        bxs1 == [bxs EXCEPT ![cur] = added.box]
        info == [box_closed |-> added.box.closed, new_box_created |-> FALSE,
                 current_box |-> cur]
    IN  IF added.ret
        THEN IF added.box.closed
             THEN [boxes |-> Append(bxs1, Box(Len(bxs1) + 1)),
                   info |-> ("new_box_created" :> TRUE)
                            @@ ("new_box" :> Len(bxs1) + 1) @@ info]
             ELSE [boxes |-> bxs1, info |-> info]
        ELSE [boxes |-> bxs1,
              info |-> [box_closed |-> FALSE, new_box_created |-> FALSE]]

\* _add_piece_to_box numbering the new box len(self.boxes)
add_piece_to_box_SameNumber(bxs, piece, now) ==
    LET cur == Len(bxs)
        added == Box_add_piece(bxs[cur], piece, now)
        bxs1 == [bxs EXCEPT ![cur] = added.box]
        info == [box_closed |-> added.box.closed, new_box_created |-> FALSE,
                 current_box |-> cur]
    IN  IF added.ret
        THEN IF added.box.closed
             THEN [boxes |-> Append(bxs1, Box(Len(bxs1))),
                   info |-> ("new_box_created" :> TRUE)
                            @@ ("new_box" :> Len(bxs1) + 1) @@ info]
             ELSE [boxes |-> bxs1, info |-> info]
        ELSE [boxes |-> bxs1,
              info |-> [box_closed |-> FALSE, new_box_created |-> FALSE]]

\* _add_piece_to_box taking the first open box as the current box
add_piece_to_box_FirstOpenBox(bxs, piece, now) ==
    LET cur == CHOOSE i \in 1..Len(bxs) :
                   ~bxs[i].closed /\ \A j \in 1..(i - 1) : bxs[j].closed
        added == Box_add_piece(bxs[cur], piece, now)
        bxs1 == [bxs EXCEPT ![cur] = added.box]
        info == [box_closed |-> added.box.closed, new_box_created |-> FALSE,
                 current_box |-> cur]
    IN  IF added.ret
        THEN IF added.box.closed /\ cur = Len(bxs)
             THEN [boxes |-> Append(bxs1, Box(Len(bxs1) + 1)),
                   info |-> ("new_box_created" :> TRUE)
                            @@ ("new_box" :> Len(bxs1) + 1) @@ info]
             ELSE [boxes |-> bxs1, info |-> info]
        ELSE [boxes |-> bxs1,
              info |-> [box_closed |-> FALSE, new_box_created |-> FALSE]]

\* _add_piece_to_box: the boxes afterwards and the dictionary returned
add_piece_to_box(bxs, piece, now) ==
    LET cur == Len(bxs)
        added == Box_add_piece(bxs[cur], piece, now)
        bxs1 == [bxs EXCEPT ![cur] = added.box]
        info == [box_closed |-> added.box.closed, new_box_created |-> FALSE,
                 current_box |-> cur]
    IN  IF added.ret
        THEN IF added.box.closed
             THEN [boxes |-> Append(bxs1, Box(Len(bxs1) + 1)),
                   info |-> ("new_box_created" :> TRUE)
                            @@ ("new_box" :> Len(bxs1) + 1) @@ info]
             ELSE [boxes |-> bxs1, info |-> info]
        ELSE [boxes |-> bxs1,
              info |-> [box_closed |-> FALSE, new_box_created |-> FALSE]]

RECURSIVE RemoveFromBoxesFrom(_, _, _)
\* the loop of _remove_piece_from_boxes from box i on
RemoveFromBoxesFrom(bxs, piece, i) ==
    IF i > Len(bxs) THEN bxs
    ELSE LET r == Box_remove_piece(bxs[i], piece)
         IN  IF r.ret THEN [bxs EXCEPT ![i] = r.box]
             ELSE RemoveFromBoxesFrom(bxs, piece, i + 1)

\* _remove_piece_from_boxes leaving the boxes alone
remove_piece_from_boxes_Forgets(bxs, piece) == bxs

\* _remove_piece_from_boxes
remove_piece_from_boxes(bxs, piece) == RemoveFromBoxesFrom(bxs, piece, 1)

\* register_piece packing every piece, approved or not
register_piece_PacksAll(weight, color, length, now) ==
    LET piece_id == generate_piece_id(next_id)
        obj == Piece(piece_id, weight, color, length)
        piece == Len(heap) + 1
        base == [piece |-> piece, approved |-> obj.approved,
                 box_closed |-> FALSE, new_box_created |-> FALSE]
        packed == add_piece_to_box(boxes, piece, now)
    IN  /\ next_id' = next_id + 1
        /\ heap' = Append(heap, obj)
        /\ pieces' = Append(pieces, piece)
        /\ boxes' = packed.boxes
        /\ result' = packed.info @@ base
        /\ call' = [op |-> "register_piece",
                    args |-> <<weight, color, length>>]

\* register_piece
register_piece(weight, color, length, now) ==
    LET piece_id == generate_piece_id(next_id)
        obj == Piece(piece_id, weight, color, length)
        piece == Len(heap) + 1
        base == [piece |-> piece, approved |-> obj.approved,
                 box_closed |-> FALSE, new_box_created |-> FALSE]
        packed == add_piece_to_box(boxes, piece, now)
    IN  /\ next_id' = next_id + 1
        /\ heap' = Append(heap, obj)
        /\ pieces' = Append(pieces, piece)
        /\ IF obj.approved
           THEN /\ boxes' = packed.boxes
                /\ result' = packed.info @@ base
           ELSE /\ boxes' = boxes
                /\ result' = base
        /\ call' = [op |-> "register_piece",
                    args |-> <<weight, color, length>>]

\* "Piece {piece.id} removed successfully"
RemovedMessage(id) ==
    <<"P", "i", "e", "c", "e", " ">> \o id
    \o <<" ", "r", "e", "m", "o", "v", "e", "d", " ", "s", "u", "c", "c",
         "e", "s", "s", "f", "u", "l", "l", "y">>

InvalidIndexMessage ==
    <<"I", "n", "v", "a", "l", "i", "d", " ", "p", "i", "e", "c", "e", " ",
      "i", "n", "d", "e", "x">>

\* the test of remove_piece on its 0-based index
ValidIndex(piece_index) == 0 <= piece_index /\ piece_index < Len(pieces)

\* the successful branch of remove_piece, for the position counted from 1
PopPiece(i) ==
    LET piece == pieces[i]
    IN  /\ pieces' = Pop(pieces, i)
        /\ boxes' = IF heap[piece].approved
                    THEN remove_piece_from_boxes(boxes, piece)
                    ELSE boxes
        /\ result' = [success |-> TRUE, piece |-> piece,
                      message |-> RemovedMessage(heap[piece].id)]

\* the failing branch of remove_piece
InvalidIndex ==
    /\ UNCHANGED <<pieces, boxes>>
    /\ result' = [success |-> FALSE, message |-> InvalidIndexMessage]

\* remove_piece without the lower bound: list.pop counts a negative index
\* from the end
remove_piece_NegativeIndex(piece_index) ==
    /\ IF -Len(pieces) <= piece_index /\ piece_index < Len(pieces)
       THEN PopPiece(IF piece_index < 0
                     THEN Len(pieces) + piece_index + 1
                     ELSE piece_index + 1)
       ELSE InvalidIndex
    /\ call' = [op |-> "remove_piece", args |-> <<piece_index>>]
    /\ UNCHANGED <<heap, next_id>>

\* remove_piece popping the last piece whatever the index
remove_piece_PopsLast(piece_index) ==
    /\ IF ValidIndex(piece_index)
       THEN PopPiece(Len(pieces))
       ELSE InvalidIndex
    /\ call' = [op |-> "remove_piece", args |-> <<piece_index>>]
    /\ UNCHANGED <<heap, next_id>>

\* remove_piece
remove_piece(piece_index) ==
    /\ IF ValidIndex(piece_index)
       THEN PopPiece(piece_index + 1)
       ELSE InvalidIndex
    /\ call' = [op |-> "remove_piece", args |-> <<piece_index>>]
    /\ UNCHANGED <<heap, next_id>>

-----------------------------------------------------------------------------
(* Statistics *)

\* get_approved_pieces
get_approved_pieces(hp, ps) == SelectSeq(ps, LAMBDA p : hp[p].approved)

\* get_rejected_pieces
get_rejected_pieces(hp, ps) == SelectSeq(ps, LAMBDA p : ~hp[p].approved)

\* get_closed_boxes, as the positions of the boxes
get_closed_boxes(bxs) ==
    SelectSeq([i \in 1..Len(bxs) |-> i], LAMBDA i : bxs[i].closed)

\* get_open_boxes, as the positions of the boxes
get_open_boxes(bxs) ==
    SelectSeq([i \in 1..Len(bxs) |-> i], LAMBDA i : ~bxs[i].closed)

\* get_current_box
get_current_box(bxs) == IF Len(bxs) > 0 THEN Len(bxs) ELSE None

RECURSIVE GCD(_, _)
GCD(a, b) == IF b = 0 THEN a ELSE GCD(b, a % b)

\* n / d for d > 0, as the fraction in lowest terms
Quotient(n, d) ==
    [num |-> n \div GCD(n, d), den |-> d \div GCD(n, d)]

\* the rate as a fraction of one, not a percentage
approval_rate_Fraction(approved_count, total_pieces) ==
    IF total_pieces > 0
    THEN Quotient(approved_count, total_pieces)
    ELSE Quotient(0, 1)

\* len(approved) / total * 100 if total > 0 else 0
approval_rate(approved_count, total_pieces) ==
    IF total_pieces > 0
    THEN Quotient(approved_count * 100, total_pieces)
    ELSE Quotient(0, 1)

\* the three tests _analyze_rejection_reasons makes on one reason
WeightMarker(reason) ==
    Contains(reason, Str_Weight) \/ Contains(reason, Str_weight)

ColorMarker(reason) ==
    Contains(reason, Str_Color) \/ Contains(reason, Str_color)

LengthMarker(reason) ==
    Contains(reason, Str_Length) \/ Contains(reason, Str_length)

RECURSIVE ScanReasons(_, _)
\* the inner loop of _analyze_rejection_reasons over one piece's reasons
ScanReasons(acc, reasons) ==
    IF reasons = <<>> THEN acc
    ELSE LET reason == Head(reasons)
         IN  ScanReasons(
                 [weight_issues |-> acc.weight_issues
                                    + IF WeightMarker(reason) THEN 1 ELSE 0,
                  color_issues |-> acc.color_issues
                                   + IF ColorMarker(reason) THEN 1 ELSE 0,
                  length_issues |-> acc.length_issues
                                    + IF LengthMarker(reason) THEN 1 ELSE 0],
                 Tail(reasons))

RECURSIVE ScanPieces(_, _, _)
\* the outer loop of _analyze_rejection_reasons
ScanPieces(acc, hp, rejected) ==
    IF rejected = <<>> THEN acc
    ELSE ScanPieces(ScanReasons(acc, hp[Head(rejected)].rejection_reasons),
                    hp, Tail(rejected))

\* _analyze_rejection_reasons
analyze_rejection_reasons(hp, rejected) ==
    ScanPieces([weight_issues |-> 0, color_issues |-> 0, length_issues |-> 0],
               hp, rejected)

RECURSIVE SumSeq(_)
SumSeq(l) == IF l = <<>> THEN 0 ELSE Head(l) + SumSeq(Tail(l))

MinSeq(l) == CHOOSE x \in {l[i] : i \in 1..Len(l)} :
                 \A j \in 1..Len(l) : x <= l[j]

MaxSeq(l) == CHOOSE x \in {l[i] : i \in 1..Len(l)} :
                 \A j \in 1..Len(l) : x >= l[j]

RECURSIVE CountColors(_, _, _)
\* the dict colors after the loop over approved[i..], as the list of its
\* items in insertion order
CountColors(colors, hp, approved) ==
    IF approved = <<>> THEN colors
    ELSE LET c == hp[Head(approved)].color
             seen == \E k \in 1..Len(colors) : colors[k].color = c
             next == IF seen
                     THEN [k \in 1..Len(colors) |->
                              IF colors[k].color = c
                              THEN [colors[k] EXCEPT !.count = @ + 1]
                              ELSE colors[k]]
                     ELSE Append(colors, [color |-> c, count |-> 1])
         IN  CountColors(next, hp, Tail(approved))

\* _calculate_quality_statistics
calculate_quality_statistics(hp, approved) ==
    LET weights == [i \in 1..Len(approved) |-> hp[approved[i]].weight]
        lengths == [i \in 1..Len(approved) |-> hp[approved[i]].length]
    IN  [average_weight |-> Quotient(SumSeq(weights), Len(weights)),
         min_weight |-> MinSeq(weights),
         max_weight |-> MaxSeq(weights),
         average_length |-> Quotient(SumSeq(lengths), Len(lengths)),
         min_length |-> MinSeq(lengths),
         max_length |-> MaxSeq(lengths),
         color_distribution |-> CountColors(<<>>, hp, approved)]

\* get_statistics computing the quality statistics over every listed piece
statistics_AllPieces(hp, ps, bxs) ==
    LET approved_pieces == get_approved_pieces(hp, ps)
        rejected_pieces == get_rejected_pieces(hp, ps)
        total_pieces == Len(ps)
        stats == [total_pieces |-> total_pieces,
                  approved_count |-> Len(approved_pieces),
                  rejected_count |-> Len(rejected_pieces),
                  approval_rate |-> approval_rate(Len(approved_pieces),
                                                  total_pieces),
                  closed_boxes |-> Len(get_closed_boxes(bxs)),
                  open_boxes |-> Len(get_open_boxes(bxs))]
        stats1 == IF rejected_pieces # <<>>
                  THEN ("rejection_analysis" :>
                           analyze_rejection_reasons(hp, rejected_pieces))
                       @@ stats
                  ELSE stats
    IN  IF approved_pieces # <<>>
        THEN ("quality_statistics" :> calculate_quality_statistics(hp, ps))
             @@ stats1
        ELSE stats1

\* get_statistics: the dictionary returned
statistics(hp, ps, bxs) ==
    LET approved_pieces == get_approved_pieces(hp, ps)
        rejected_pieces == get_rejected_pieces(hp, ps)
        total_pieces == Len(ps)
        stats == [total_pieces |-> total_pieces,
                  approved_count |-> Len(approved_pieces),
                  rejected_count |-> Len(rejected_pieces),
                  approval_rate |-> approval_rate(Len(approved_pieces),
                                                  total_pieces),
                  closed_boxes |-> Len(get_closed_boxes(bxs)),
                  open_boxes |-> Len(get_open_boxes(bxs))]
        stats1 == IF rejected_pieces # <<>>
                  THEN ("rejection_analysis" :>
                           analyze_rejection_reasons(hp, rejected_pieces))
                       @@ stats
                  ELSE stats
    IN  IF approved_pieces # <<>>
        THEN ("quality_statistics" :>
                 calculate_quality_statistics(hp, approved_pieces))
             @@ stats1
        ELSE stats1

\* get_statistics keeping only the approved pieces in self.pieces
get_statistics_Consumes ==
    /\ result' = statistics(heap, pieces, boxes)
    /\ call' = [op |-> "get_statistics", args |-> <<>>]
    /\ pieces' = get_approved_pieces(heap, pieces)
    /\ UNCHANGED <<heap, boxes, next_id>>

\* get_statistics
get_statistics ==
    /\ result' = statistics(heap, pieces, boxes)
    /\ call' = [op |-> "get_statistics", args |-> <<>>]
    /\ UNCHANGED <<heap, pieces, boxes, next_id>>

\* generate_report: the dictionary returned; now is datetime.now() formatted
report(hp, ps, bxs, now) ==
    LET stats == statistics(hp, ps, bxs)
        rep == [timestamp |-> now,
                summary |-> [total_pieces |-> stats.total_pieces,
                             approved |-> stats.approved_count,
                             rejected |-> stats.rejected_count,
                             approval_rate |-> stats.approval_rate],
                storage |-> [closed_boxes |-> stats.closed_boxes,
                             open_boxes |-> stats.open_boxes,
                             current_box |-> get_current_box(bxs)],
                pieces |-> [approved |-> get_approved_pieces(hp, ps),
                            rejected |-> get_rejected_pieces(hp, ps)]]
        rep1 == IF "rejection_analysis" \in DOMAIN stats
                THEN ("rejection_analysis" :> stats.rejection_analysis) @@ rep
                ELSE rep
    IN  IF "quality_statistics" \in DOMAIN stats
        THEN ("quality_statistics" :> stats.quality_statistics) @@ rep1
        ELSE rep1

\* generate_report
generate_report(now) ==
    /\ result' = report(heap, pieces, boxes, now)
    /\ call' = [op |-> "generate_report", args |-> <<>>]
    /\ UNCHANGED <<heap, pieces, boxes, next_id>>

\* a call of the accessor op, returning value
Accessor(op, value) ==
    /\ result' = [value |-> value]
    /\ call' = [op |-> op, args |-> <<>>]
    /\ UNCHANGED <<heap, pieces, boxes, next_id>>

-----------------------------------------------------------------------------
(* The registry under its callers *)

\* the formatted times datetime.now() may give
Times == {"03/11/2026 10:00:00", "03/11/2026 10:00:01"}

\* the measurements the packing runs register: one approved piece and one
\* rejected piece
FillInputs ==
    {<<100 * Milli, Str_blue, 15 * Milli>>, <<100 * Milli, Str_red, 15 * Milli>>}

\* the measurements the classification runs register: every combination of
\* passing and failing rules, with canonical, synonym, mixed-case and
\* unknown colors
MixInputs ==
    {<<100 * Milli, Str_blue, 15 * Milli>>,
     <<50 * Milli, Str_red, 25 * Milli>>,
     <<50 * Milli, Str_Verde, 15 * Milli>>,
     <<100 * Milli, Str_red, 15 * Milli>>,
     <<100 * Milli, Str_AZUL, 25 * Milli>>,
     <<50 * Milli, Str_weight, 15 * Milli>>,
     <<100 * Milli, Str_Length, 25 * Milli>>,
     <<50 * Milli, Str_green, 25 * Milli>>}

\* QualityControlSystem.__init__
Init ==
    /\ heap = <<>>
    /\ pieces = <<>>
    /\ boxes = <<Box(1)>>
    /\ next_id = 1
    /\ result = <<>>
    /\ call = [op |-> "__init__", args |-> <<>>]

Removed == Len(heap) - Len(pieces)

\* how many rejected pieces were ever registered
RejectedEver == Cardinality({p \in 1..Len(heap) : ~heap[p].approved})

Register ==
    /\ Len(heap) < MaxRegs
    /\ \E in \in FillInputs, now \in Times :
           /\ ~Piece(<<>>, in[1], in[2], in[3]).approved
                  => RejectedEver < MaxRejected
           /\ register_piece(in[1], in[2], in[3], now)

Remove ==
    \E piece_index \in -1..Len(pieces) :
        /\ ValidIndex(piece_index) => Removed < MaxRemoves
        /\ remove_piece(piece_index)

Statistics == get_statistics

Next == Register \/ Remove \/ Statistics

Spec == Init /\ [][Next]_vars

RegisterMix ==
    /\ Len(heap) < MaxMixRegs
    /\ \E in \in MixInputs, now \in Times :
           register_piece(in[1], in[2], in[3], now)

RemoveMix ==
    \E piece_index \in -1..Len(pieces) :
        /\ ValidIndex(piece_index) => Removed < MaxMixRemoves
        /\ remove_piece(piece_index)

NextMix == RegisterMix \/ RemoveMix \/ Statistics

SpecMix == Init /\ [][NextMix]_vars

\* the measurements the boundary and normalization runs register: weights
\* and lengths at and just outside the limits, and both colors in their
\* canonical and localized forms and in several letter cases
PieceInputs ==
    ({94999, 95 * Milli, 105 * Milli, 105001} \X {Str_blue} \X {15 * Milli})
    \cup ({100 * Milli} \X {Str_verde} \X {9999, 10 * Milli, 20 * Milli, 20001})
    \cup ({100 * Milli, 50 * Milli}
              \X {Str_azul, Str_AZUL, Str_blue, Str_Blue,
                  Str_verde, Str_Verde, Str_green, Str_GREEN}
              \X {15 * Milli})

RegisterPiece ==
    /\ Len(heap) < MaxPieceRegs
    /\ \E in \in PieceInputs, now \in Times :
           register_piece(in[1], in[2], in[3], now)

NextPiece == RegisterPiece

SpecPiece == Init /\ [][NextPiece]_vars

RegisterQuery ==
    /\ Len(heap) < MaxQueryRegs
    /\ \E in \in FillInputs, now \in Times :
           /\ ~Piece(<<>>, in[1], in[2], in[3]).approved
                  => RejectedEver < MaxRejected
           /\ register_piece(in[1], in[2], in[3], now)

RemoveQuery ==
    \E piece_index \in -1..Len(pieces) :
        /\ ValidIndex(piece_index) => Removed < MaxQueryRemoves
        /\ remove_piece(piece_index)

Report == \E now \in Times : generate_report(now)

GetAllPieces == Accessor("get_all_pieces", pieces)

GetApprovedPieces ==
    Accessor("get_approved_pieces", get_approved_pieces(heap, pieces))

GetRejectedPieces ==
    Accessor("get_rejected_pieces", get_rejected_pieces(heap, pieces))

GetClosedBoxes == Accessor("get_closed_boxes", get_closed_boxes(boxes))

GetOpenBoxes == Accessor("get_open_boxes", get_open_boxes(boxes))

GetCurrentBox == Accessor("get_current_box", get_current_box(boxes))

NextQuery ==
    \/ RegisterQuery \/ RemoveQuery \/ Statistics \/ Report
    \/ GetAllPieces \/ GetApprovedPieces \/ GetRejectedPieces
    \/ GetClosedBoxes \/ GetOpenBoxes \/ GetCurrentBox

SpecQuery == Init /\ [][NextQuery]_vars

\* Piece(...): a piece is constructed outside the registry
NewPiece ==
    /\ Len(heap) < MaxBoxPieces
    /\ \E in \in FillInputs :
           /\ heap' = Append(heap, Piece(generate_piece_id(Len(heap) + 1),
                                         in[1], in[2], in[3]))
           /\ call' = [op |-> "Piece", args |-> in]
    /\ result' = [ret |-> Len(heap) + 1]
    /\ UNCHANGED <<pieces, boxes, next_id>>

\* box.add_piece(piece) called on the box itself
BoxAdd ==
    \E piece \in 1..Len(heap), now \in Times :
        LET r == Box_add_piece(boxes[1], piece, now)
        IN  /\ boxes' = [boxes EXCEPT ![1] = r.box]
            /\ result' = [ret |-> r.ret]
            /\ call' = [op |-> "Box.add_piece", args |-> <<piece>>]
            /\ UNCHANGED <<heap, pieces, next_id>>

\* box.remove_piece(piece) called on the box itself
BoxRemove ==
    \E piece \in 1..Len(heap) :
        LET r == Box_remove_piece(boxes[1], piece)
        IN  /\ boxes' = [boxes EXCEPT ![1] = r.box]
            /\ result' = [ret |-> r.ret]
            /\ call' = [op |-> "Box.remove_piece", args |-> <<piece>>]
            /\ UNCHANGED <<heap, pieces, next_id>>

\* box.close() called on the box itself
BoxClose ==
    \E now \in Times :
        /\ boxes' = [boxes EXCEPT ![1] = Box_close(@, now)]
        /\ result' = [ret |-> None]
        /\ call' = [op |-> "Box.close", args |-> <<>>]
        /\ UNCHANGED <<heap, pieces, next_id>>

NextBox == NewPiece \/ BoxAdd \/ BoxRemove \/ BoxClose

SpecBox == Init /\ [][NextBox]_vars

RegisterOrder ==
    /\ Len(heap) < MaxOrderRegs
    /\ \E in \in FillInputs, now \in Times :
           register_piece(in[1], in[2], in[3], now)

RemoveOrder ==
    \E piece_index \in -1..Len(pieces) :
        /\ ValidIndex(piece_index) => Removed < MaxOrderRemoves
        /\ remove_piece(piece_index)

NextOrder == RegisterOrder \/ RemoveOrder

SpecOrder == Init /\ [][NextOrder]_vars

\* the measurements the statistics runs register: approved pieces of both
\* colors at the limits and between them, and rejected pieces
StatsInputs ==
    {<<95 * Milli, Str_blue, 10 * Milli>>,
     <<105 * Milli, Str_Verde, 20 * Milli>>,
     <<100 * Milli, Str_AZUL, 15 * Milli>>,
     <<50 * Milli, Str_red, 25 * Milli>>,
     <<105 * Milli + 1, Str_green, 15 * Milli>>}

RegisterStats ==
    /\ Len(heap) < MaxStatsRegs
    /\ \E in \in StatsInputs, now \in Times :
           register_piece(in[1], in[2], in[3], now)

RemoveStats ==
    \E piece_index \in -1..Len(pieces) :
        /\ ValidIndex(piece_index) => Removed < MaxStatsRemoves
        /\ remove_piece(piece_index)

NextStats == RegisterStats \/ RemoveStats \/ Statistics

SpecStats == Init /\ [][NextStats]_vars

-----------------------------------------------------------------------------
(* Properties *)

\* how many approved pieces were ever registered
ApprovedEver == Cardinality({p \in 1..Len(heap) : heap[p].approved})

\* the places, box and position, where boxes hold the piece p
Holders(p) ==
    {<<i, k>> \in (1..Len(boxes)) \X (1..MAX_CAPACITY + 1) :
        k <= Len(boxes[i].pieces) /\ boxes[i].pieces[k] = p}

\* the rules a piece fails, from its stored measurements and stored color
FailsWeight(p) == ~(95 * Milli <= p.weight /\ p.weight <= 105 * Milli)

FailsColor(p) == ~(p.color = Str_blue \/ p.color = Str_green)

FailsLength(p) == ~(10 * Milli <= p.length /\ p.length <= 20 * Milli)

\* the rule a reason string reports, from the words it opens with
ReasonRule(reason) ==
    IF SubSeq(reason, 1, 4) = <<"P", "e", "s", "o">> THEN "weight"
    ELSE IF SubSeq(reason, 1, 4) = <<"C", "o", "r", " ">> THEN "color"
    ELSE IF SubSeq(reason, 1, 4) = <<"C", "o", "m", "p">> THEN "length"
    ELSE "unknown"

\* C1: every box of the registry holds at most 10 pieces.
C1_BoxWithinCapacity ==
    \A i \in 1..Len(boxes) : Len(boxes[i].pieces) <= 10

\* a box is full and a further approved piece has been registered
C1_Witness ==
    /\ Len(boxes) >= 2
    /\ Len(boxes[1].pieces) = 10
    /\ Len(boxes[2].pieces) >= 1

\* C2: with no removals, the register call of the 10th approved piece closes
\* box #1 with 10 pieces and opens box #2 empty, its result reports both with
\* current_box = box #1 and new_box = box #2, and every register result
\* before it has both flags false.
C2_TenthApprovedClosesFirstBox ==
    Removed = 0 =>
        /\ ApprovedEver = 10 =>
               /\ Len(boxes) = 2
               /\ boxes[1].number = 1 /\ boxes[1].closed
               /\ Len(boxes[1].pieces) = 10
               /\ boxes[2].number = 2 /\ ~boxes[2].closed
               /\ boxes[2].pieces = <<>>
        /\ (call.op = "register_piece" /\ ApprovedEver = 10
                /\ result.approved) =>
               /\ result.box_closed /\ result.new_box_created
               /\ "current_box" \in DOMAIN result
               /\ "new_box" \in DOMAIN result
               /\ boxes[result.current_box].number = 1
               /\ boxes[result.new_box].number = 2
        /\ (call.op = "register_piece" /\ ApprovedEver < 10) =>
               ~result.box_closed /\ ~result.new_box_created

\* the 10th approved piece has just been registered, after a rejected one
C2_Witness ==
    /\ Removed = 0
    /\ call.op = "register_piece" /\ result.approved
    /\ ApprovedEver = 10 /\ RejectedEver >= 1

\* C3: a successful remove of a piece held by a box that is closed with 10
\* pieces leaves that box open, its closing date cleared, with the other 9
\* pieces, and leaves every other box unchanged.
C3_RemoveReopensClosedBox ==
    [][\A i \in 1..Len(boxes) :
          (/\ boxes[i].closed /\ Len(boxes[i].pieces) = 10
           /\ call'.op = "remove_piece" /\ result'.success
           /\ InList(boxes[i].pieces, result'.piece))
          => /\ Len(boxes') = Len(boxes)
             /\ ~boxes'[i].closed
             /\ boxes'[i].closing_date = None
             /\ Len(boxes'[i].pieces) = 9
             /\ ~InList(boxes'[i].pieces, result'.piece)
             /\ boxes'[i].number = boxes[i].number
             /\ \A j \in 1..Len(boxes) : j # i => boxes'[j] = boxes[j]]_vars

\* a piece has just been removed from box #1, which had closed, while box #2
\* holds a piece
C3_Witness ==
    /\ call.op = "remove_piece" /\ result.success
    /\ heap[result.piece].approved
    /\ Len(boxes) = 2
    /\ Len(boxes[1].pieces) = 9 /\ ~boxes[1].closed
    /\ boxes[1].closing_date = None
    /\ Len(boxes[2].pieces) = 1

\* C4: the n-th piece ever registered has the identifier P followed by n in
\* 4 digits, no two pieces ever registered share an identifier, and the
\* counter is one more than the number of register calls made, whatever was
\* removed.
C4_IdentifiersInRegistrationOrder ==
    /\ next_id = Len(heap) + 1
    /\ \A n \in 1..Len(heap) :
           heap[n].id = <<"P", Digit((n \div 1000) % 10),
                          Digit((n \div 100) % 10), Digit((n \div 10) % 10),
                          Digit(n % 10)>>
    /\ \A m, n \in 1..Len(heap) : m # n => heap[m].id # heap[n].id

\* a piece has just been registered after an earlier one was removed
C4_Witness ==
    /\ call.op = "register_piece"
    /\ Removed >= 1
    /\ Len(pieces) >= 2

\* C5: a piece is held by boxes in exactly one place when it is approved and
\* in the item list, and in no place otherwise; boxes hold only pieces that
\* were registered.
C5_ApprovedPieceInExactlyOneBox ==
    /\ \A p \in 1..Len(heap) :
           Cardinality(Holders(p)) =
               IF heap[p].approved /\ InList(pieces, p) THEN 1 ELSE 0
    /\ \A i \in 1..Len(boxes) : \A k \in 1..Len(boxes[i].pieces) :
           boxes[i].pieces[k] \in 1..Len(heap)

\* an approved piece has just been removed while other approved pieces
\* remain
C5_Witness ==
    /\ call.op = "remove_piece" /\ result.success
    /\ heap[result.piece].approved
    /\ \E p \in 1..Len(heap) : heap[p].approved /\ InList(pieces, p)

\* C6: remove_piece with an index below 0 or not below the length of the
\* item list returns success = false with a message and no piece, and
\* changes neither the item list, the boxes nor the counter.
C6_InvalidIndexChangesNothing ==
    [][(/\ call'.op = "remove_piece"
        /\ (call'.args[1] < 0 \/ call'.args[1] >= Len(pieces)))
       => /\ result'.success = FALSE
          /\ "message" \in DOMAIN result'
          /\ "piece" \notin DOMAIN result'
          /\ UNCHANGED <<heap, pieces, boxes, next_id>>]_vars

\* remove_piece(-1) has just failed on a registry that lists pieces
C6_Witness ==
    /\ call.op = "remove_piece" /\ call.args[1] = -1
    /\ ~result.success
    /\ Len(pieces) >= 1

\* the rejected pieces of the item list that fail the rule Fails
RejectedFailing(Fails(_)) ==
    Cardinality({k \in 1..Len(pieces) :
                    ~heap[pieces[k]].approved /\ Fails(heap[pieces[k]])})

\* C7: when rejected pieces are listed, the rejection analysis of
\* get_statistics counts, for each rule, the listed rejected pieces that
\* fail that rule.
C7_RejectionCountsMatchRules ==
    (call.op = "get_statistics"
         /\ \E k \in 1..Len(pieces) : ~heap[pieces[k]].approved)
    => /\ "rejection_analysis" \in DOMAIN result
       /\ result.rejection_analysis.weight_issues
              = RejectedFailing(FailsWeight)
       /\ result.rejection_analysis.color_issues
              = RejectedFailing(FailsColor)
       /\ result.rejection_analysis.length_issues
              = RejectedFailing(FailsLength)

\* C8: get_statistics returns approved_count + rejected_count
\* = total_pieces = the length of the item list, and an approval rate of 0
\* for an empty list and of approved_count / total_pieces * 100 otherwise.
C8_StatisticsConsistent ==
    call.op = "get_statistics" =>
        /\ result.total_pieces = Len(pieces)
        /\ result.approved_count + result.rejected_count
               = result.total_pieces
        /\ IF Len(pieces) = 0
           THEN result.approval_rate.num = 0
           ELSE result.approval_rate.num * result.total_pieces
                    = result.approved_count * 100 * result.approval_rate.den

\* statistics have just been taken after every registered piece was removed
C8_Witness ==
    /\ call.op = "get_statistics"
    /\ Len(heap) >= 1 /\ Len(pieces) = 0

\* C9: every piece ever constructed is approved exactly when it has no
\* rejection reasons, and exactly when its weight is in [95, 105], its
\* stored color is blue or green and its length is in [10, 20].
C9_ApprovedIffNoReasonsIffRules ==
    \A p \in 1..Len(heap) :
        /\ heap[p].approved <=> (heap[p].rejection_reasons = <<>>)
        /\ heap[p].approved <=>
               (~FailsWeight(heap[p]) /\ ~FailsColor(heap[p])
                    /\ ~FailsLength(heap[p]))

\* an approved and a rejected piece were constructed and a later operation
\* removed one of them
C9_Witness ==
    /\ call.op = "remove_piece" /\ result.success
    /\ \E p, q \in 1..Len(heap) : heap[p].approved /\ ~heap[q].approved

\* the rules a piece fails, in the order weight, color, length
FailedRules(p) ==
    SelectSeq(<<"weight", "color", "length">>,
              LAMBDA r : \/ r = "weight" /\ FailsWeight(p)
                         \/ r = "color" /\ FailsColor(p)
                         \/ r = "length" /\ FailsLength(p))

\* C10: the rejection reasons of every piece are one reason per failing
\* rule, in the order weight, color, length; weight 50, color red, length 25
\* gives 3 reasons and weight 100, color blue, length 15 gives none.
C10_OneReasonPerFailingRule ==
    /\ \A p \in 1..Len(heap) :
           [k \in 1..Len(heap[p].rejection_reasons) |->
               ReasonRule(heap[p].rejection_reasons[k])]
           = FailedRules(heap[p])
    /\ call.op = "register_piece" =>
           /\ call.args = <<50 * Milli, Str_red, 25 * Milli>>
                  => Len(heap[result.piece].rejection_reasons) = 3
           /\ call.args = <<100 * Milli, Str_blue, 15 * Milli>>
                  => Len(heap[result.piece].rejection_reasons) = 0

\* both named pieces were registered, the one failing every rule last
C10_Witness ==
    /\ call.op = "register_piece"
    /\ call.args = <<50 * Milli, Str_red, 25 * Milli>>
    /\ \E p \in 1..Len(heap) :
           /\ heap[p].weight = 100 * Milli /\ heap[p].color = Str_blue
           /\ heap[p].length = 15 * Milli

\* C11: with a valid color and the other measure in range, a piece is
\* approved at weight 95 and at weight 105 and rejected at any weight below
\* 95 or above 105, and likewise for length at 10 and 20.
C11_LimitsInclusive ==
    \A p \in 1..Len(heap) :
        /\ (~FailsColor(heap[p]) /\ ~FailsLength(heap[p])) =>
               /\ heap[p].weight \in {95 * Milli, 105 * Milli}
                      => heap[p].approved
               /\ (heap[p].weight < 95 * Milli \/ heap[p].weight > 105 * Milli)
                      => ~heap[p].approved
        /\ (~FailsColor(heap[p]) /\ ~FailsWeight(heap[p])) =>
               /\ heap[p].length \in {10 * Milli, 20 * Milli}
                      => heap[p].approved
               /\ (heap[p].length < 10 * Milli \/ heap[p].length > 20 * Milli)
                      => ~heap[p].approved

\* a piece at the lower weight limit and a piece one thousandth below it
\* were registered
C11_Witness ==
    \E p, q \in 1..Len(heap) :
        /\ heap[p].weight = 95 * Milli /\ heap[p].approved
        /\ heap[q].weight = 94999 /\ ~heap[q].approved
        /\ ~FailsColor(heap[q]) /\ ~FailsLength(heap[q])

\* the spellings of the two colors: localized and canonical
SynonymForms == {Str_azul, Str_AZUL, Str_verde, Str_Verde}

CanonicalForms == {Str_blue, Str_Blue, Str_green, Str_GREEN}

\* the canonical lower-case value a spelling stands for
ColorOf(spelling) ==
    IF spelling \in {Str_azul, Str_AZUL, Str_blue, Str_Blue}
    THEN Str_blue ELSE Str_green

\* C12: two register calls in a row with the same weight and length, one
\* with a localized spelling and one with a canonical spelling of the same
\* color, in any letter case, give pieces with the same stored color, the
\* canonical lower-case value, and the same approved flag and reasons.
C12_SynonymSameAsCanonical ==
    [][(/\ call.op = "register_piece" /\ call'.op = "register_piece"
        /\ call.args[1] = call'.args[1] /\ call.args[3] = call'.args[3]
        /\ {call.args[2], call'.args[2]} \cap SynonymForms # {}
        /\ {call.args[2], call'.args[2]} \cap CanonicalForms # {}
        /\ ColorOf(call.args[2]) = ColorOf(call'.args[2]))
       => /\ heap'[result'.piece].color = ColorOf(call.args[2])
          /\ heap[result.piece].color = ColorOf(call.args[2])
          /\ heap'[result'.piece].approved = heap[result.piece].approved
          /\ heap'[result'.piece].rejection_reasons
                 = heap[result.piece].rejection_reasons]_vars

\* AZUL was registered right after a piece of the same measurements that is
\* stored as blue
C12_Witness ==
    /\ call.op = "register_piece"
    /\ call.args = <<100 * Milli, Str_AZUL, 15 * Milli>>
    /\ Len(heap) = 2
    /\ heap[1].weight = 100 * Milli /\ heap[1].length = 15 * Milli
    /\ heap[1].color = Str_blue /\ heap[2].color = Str_blue

\* C13: a register call whose piece is rejected appends the piece to the
\* end of the item list and advances the counter, leaves the boxes as they
\* were, and returns both flags false with no current_box and no new_box.
C13_RejectedTouchesNoBox ==
    [][(call'.op = "register_piece" /\ ~result'.approved)
       => /\ Len(heap') = Len(heap) + 1
          /\ result'.piece = Len(heap')
          /\ ~heap'[result'.piece].approved
          /\ pieces' = pieces \o <<result'.piece>>
          /\ next_id' = next_id + 1
          /\ boxes' = boxes
          /\ ~result'.box_closed /\ ~result'.new_box_created
          /\ "current_box" \notin DOMAIN result'
          /\ "new_box" \notin DOMAIN result']_vars

\* a rejected piece has just been registered while the current box holds
\* pieces
C13_Witness ==
    /\ call.op = "register_piece" /\ ~result.approved
    /\ Len(boxes[Len(boxes)].pieces) >= 1
    /\ pieces[Len(pieces)] = result.piece

\* the step is a register call whose piece became the 10th of the box that
\* was last, closing it
ClosingAdd ==
    /\ call'.op = "register_piece" /\ result'.approved
    /\ Len(boxes[Len(boxes)].pieces) = 9
    /\ Len(boxes'[Len(boxes)].pieces) = 10
    /\ boxes'[Len(boxes)].closed

\* C14: the number of boxes grows, by exactly one, in exactly the steps
\* that are a register call bringing the last box to 10 pieces and closing
\* it; in every other step the boxes are the same boxes, and the number of
\* boxes never decreases.
C14_NewBoxOnlyOnClose ==
    [][/\ Len(boxes') >= Len(boxes)
       /\ Len(boxes') # Len(boxes) <=> ClosingAdd
       /\ ClosingAdd => Len(boxes') = Len(boxes) + 1
       /\ \A i \in 1..Len(boxes) : boxes'[i].number = boxes[i].number]_vars

\* a box has just been closed and a new one opened, after a removal
C14_Witness ==
    /\ call.op = "register_piece" /\ result.new_box_created
    /\ Len(boxes) = 2 /\ Removed = 1

\* the last box is open and below capacity
LastBoxHasRoom ==
    /\ Len(boxes) >= 1
    /\ ~boxes[Len(boxes)].closed
    /\ Len(boxes[Len(boxes)].pieces) < 10

\* C15: the last box is always open with fewer than 10 pieces, and every
\* register call of an approved piece appends it as the last piece of the
\* box that was last before the call, never taking the failing return of
\* Box.add_piece.
C15_AddToCurrentBoxSucceeds ==
    [][/\ LastBoxHasRoom /\ LastBoxHasRoom'
       /\ (call'.op = "register_piece" /\ result'.approved)
          => /\ "current_box" \in DOMAIN result'
             /\ result'.current_box = Len(boxes)
             /\ boxes'[Len(boxes)].pieces
                    = boxes[Len(boxes)].pieces \o <<result'.piece>>]_vars

\* an approved piece has just been added to box #2 while box #1, reopened
\* by a removal, has room
C15_Witness ==
    /\ call.op = "register_piece" /\ result.approved
    /\ Len(boxes) = 2 /\ result.current_box = 2
    /\ Len(boxes[1].pieces) = 9

\* C16: a box goes from open to closed only in a register call that adds
\* to that box and brings it from 9 to exactly 10 pieces; a new box starts
\* open.
C16_ClosedOnlyByTenthAdd ==
    [][\A i \in 1..Len(boxes') :
          IF i <= Len(boxes)
          THEN (~boxes[i].closed /\ boxes'[i].closed)
               => /\ call'.op = "register_piece" /\ result'.approved
                  /\ result'.current_box = i
                  /\ Len(boxes[i].pieces) = 9
                  /\ Len(boxes'[i].pieces) = 10
          ELSE ~boxes'[i].closed]_vars

\* a box has just been closed by its 10th piece
C16_Witness ==
    /\ call.op = "register_piece" /\ result.box_closed
    /\ boxes[result.current_box].closed
    /\ Len(boxes[result.current_box].pieces) = 10

\* the calls that only read the registry
ReadOnlyOps ==
    {"get_statistics", "generate_report", "get_all_pieces",
     "get_approved_pieces", "get_rejected_pieces", "get_closed_boxes",
     "get_open_boxes", "get_current_box"}

\* the report in result describes the registry as it is
ReportIsCurrent ==
    call.op = "generate_report" =>
        /\ result.summary.total_pieces = Len(pieces)
        /\ result.summary.approved
               = Cardinality({k \in 1..Len(pieces) : heap[pieces[k]].approved})
        /\ result.summary.rejected
               = Cardinality({k \in 1..Len(pieces) : ~heap[pieces[k]].approved})
        /\ result.storage.closed_boxes
               = Cardinality({i \in 1..Len(boxes) : boxes[i].closed})
        /\ result.storage.open_boxes
               = Cardinality({i \in 1..Len(boxes) : ~boxes[i].closed})
        /\ result.storage.current_box = Len(boxes)
        /\ result.pieces.approved
               = SelectSeq(pieces, LAMBDA p : heap[p].approved)
        /\ result.pieces.rejected
               = SelectSeq(pieces, LAMBDA p : ~heap[p].approved)

\* C17: get_statistics, generate_report and the accessors change neither
\* the item list, the boxes, the pieces nor the counter; a report describes
\* the registry as it is, and a report called right after a report returns
\* the same dictionary but for the timestamp.
C17_QueriesReadOnly ==
    [][/\ call'.op \in ReadOnlyOps
          => UNCHANGED <<heap, pieces, boxes, next_id>>
       /\ ReportIsCurrent'
       /\ (call.op = "generate_report" /\ call'.op = "generate_report")
          => [result' EXCEPT !.timestamp = result.timestamp] = result]_vars

\* a report has just been made of a registry whose first box is closed
C17_Witness ==
    /\ call.op = "generate_report"
    /\ result.storage.closed_boxes = 1
    /\ Len(result.pieces.approved) = MAX_CAPACITY
    /\ "quality_statistics" \in DOMAIN result

\* C18: Box.add_piece called on a closed box returns False and leaves the
\* box's pieces, closed flag and closing date as they were.
C18_AddToClosedBoxFails ==
    [][(call'.op = "Box.add_piece" /\ boxes[1].closed)
       => /\ result'.ret = FALSE
          /\ boxes'[1].pieces = boxes[1].pieces
          /\ boxes'[1].closed = boxes[1].closed
          /\ boxes'[1].closing_date = boxes[1].closing_date]_vars

\* add_piece has just failed on a closed box that holds fewer pieces than
\* its capacity
C18_Witness ==
    /\ call.op = "Box.add_piece"
    /\ result.ret = FALSE
    /\ boxes[1].closed
    /\ Len(boxes[1].pieces) < MAX_CAPACITY

DigitValue(c) ==
    CASE c = "0" -> 0 [] c = "1" -> 1 [] c = "2" -> 2 [] c = "3" -> 3
      [] c = "4" -> 4 [] c = "5" -> 5 [] c = "6" -> 6 [] c = "7" -> 7
      [] c = "8" -> 8 [] c = "9" -> 9

RECURSIVE ParseDigits(_, _, _)
\* the number written by the characters from..to of s
ParseDigits(s, from, to) ==
    IF to < from THEN 0
    ELSE 10 * ParseDigits(s, from, to - 1) + DigitValue(s[to])

\* the numeric part of an identifier: what follows its first character
IdNumber(id) == ParseDigits(id, 2, Len(id))

\* the item list is in registration order
InRegistrationOrder ==
    LET numbers == [k \in 1..Len(pieces) |-> IdNumber(heap[pieces[k]].id)]
    IN  \A k \in 1..(Len(pieces) - 1) : numbers[k] < numbers[k + 1]

\* C20: a successful remove_piece(index) deletes exactly the piece at that
\* position, keeps the other pieces in their order and leaves every piece's
\* identifier, measurements and classification as they were; the item list
\* is always in registration order, its identifiers' numbers increasing.
C20_RemoveKeepsOrder ==
    [][/\ (call'.op = "remove_piece" /\ result'.success)
          => /\ result'.piece = pieces[call'.args[1] + 1]
             /\ Len(pieces') = Len(pieces) - 1
             /\ \A k \in 1..Len(pieces') :
                    pieces'[k] = IF k <= call'.args[1]
                                 THEN pieces[k] ELSE pieces[k + 1]
             /\ heap' = heap
       /\ InRegistrationOrder /\ InRegistrationOrder']_vars

\* a piece registered between two others that remain has just been removed
C20_Witness ==
    /\ call.op = "remove_piece" /\ result.success
    /\ \E j, k \in 1..Len(pieces) :
           pieces[j] < result.piece /\ result.piece < pieces[k]

\* C21: there is always at least one box, the box at position i has the
\* number i, so the numbers are distinct, consecutive from 1 and ascending,
\* and get_current_box never returns None.
C21_BoxesNumberedByPosition ==
    /\ Len(boxes) >= 1
    /\ \A i \in 1..Len(boxes) : boxes[i].number = i
    /\ \A i, j \in 1..Len(boxes) :
           i < j => boxes[i].number < boxes[j].number
    /\ get_current_box(boxes) \in 1..Len(boxes)
    /\ boxes[get_current_box(boxes)].number = Len(boxes)

\* a second box has been opened and a piece removed from the first
C21_Witness ==
    /\ Len(boxes) = 2
    /\ boxes[2].number = 2
    /\ Len(boxes[1].pieces) = 9
    /\ Removed = 1

\* C22: a box has a closing date exactly when it is closed: Box.close
\* stamps it in the add that brings the box to 10 pieces, and the remove
\* that reopens the box clears it.
C22_ClosingDateIffClosed ==
    \A i \in 1..Len(boxes) :
        /\ boxes[i].closed <=> boxes[i].closing_date # None
        /\ boxes[i].closed => boxes[i].closing_date \in Times

\* the first box was closed, which opened the second, and a remove has
\* just reopened it and cleared its closing date
C22_Witness ==
    /\ call.op = "remove_piece" /\ result.success
    /\ Len(boxes) = 2
    /\ ~boxes[1].closed /\ boxes[1].closing_date = None
    /\ Len(boxes[1].pieces) = MAX_CAPACITY - 1

\* the positions of the item list holding approved pieces
ApprovedListed == {k \in 1..Len(pieces) : heap[pieces[k]].approved}

\* the positions of the item list holding rejected pieces
RejectedListed == {k \in 1..Len(pieces) : ~heap[pieces[k]].approved}

RECURSIVE SumCounts(_)
\* the sum of the counts of a color distribution
SumCounts(cd) == IF cd = <<>> THEN 0 ELSE Head(cd).count + SumCounts(Tail(cd))

\* the quality section q describes the approved pieces now listed
QualitySectionRight(q) ==
    LET cd == q.color_distribution
    IN  /\ \A e \in 1..Len(cd) :
               /\ cd[e].color \in {Str_blue, Str_green}
               /\ cd[e].count
                      = Cardinality({k \in ApprovedListed :
                                        heap[pieces[k]].color = cd[e].color})
        /\ \A e, f \in 1..Len(cd) : e # f => cd[e].color # cd[f].color
        /\ \A k \in ApprovedListed :
               \E e \in 1..Len(cd) : cd[e].color = heap[pieces[k]].color
        /\ SumCounts(cd) = result.approved_count
        /\ 95 * Milli <= q.min_weight /\ q.min_weight <= q.max_weight
        /\ q.max_weight <= 105 * Milli
        /\ 10 * Milli <= q.min_length /\ q.min_length <= q.max_length
        /\ q.max_length <= 20 * Milli
        /\ q.average_weight.den >= 1 /\ q.average_length.den >= 1

\* C23: the dictionary of get_statistics has quality_statistics exactly when
\* an approved piece is listed and rejection_analysis exactly when a rejected
\* piece is listed; the color distribution has the keys blue and green only,
\* each counting the approved pieces of that color, the counts summing to
\* approved_count, and the extreme weights and lengths are within the limits.
C23_StatisticsSections ==
    call.op = "get_statistics" =>
        /\ "quality_statistics" \in DOMAIN result <=> ApprovedListed # {}
        /\ "rejection_analysis" \in DOMAIN result <=> RejectedListed # {}
        /\ "quality_statistics" \in DOMAIN result
               => QualitySectionRight(result.quality_statistics)

\* statistics of a list holding approved pieces of both colors, of
\* different weights, and a rejected piece
C23_Witness ==
    /\ call.op = "get_statistics"
    /\ "rejection_analysis" \in DOMAIN result
    /\ "quality_statistics" \in DOMAIN result
    /\ Len(result.quality_statistics.color_distribution) = 2
    /\ result.quality_statistics.min_weight
           < result.quality_statistics.max_weight

\* C24: a box is closed exactly when it holds 10 pieces, so closed_boxes of
\* get_statistics is the number of boxes with 10 pieces, open_boxes the
\* number with fewer, and the two add up to the number of boxes.
C24_ClosedIffFull ==
    /\ \A i \in 1..Len(boxes) :
           boxes[i].closed <=> Len(boxes[i].pieces) = MAX_CAPACITY
    /\ call.op = "get_statistics" =>
           /\ result.closed_boxes
                  = Cardinality({i \in 1..Len(boxes) :
                                    Len(boxes[i].pieces) = MAX_CAPACITY})
           /\ result.open_boxes
                  = Cardinality({i \in 1..Len(boxes) :
                                    Len(boxes[i].pieces) < MAX_CAPACITY})
           /\ result.closed_boxes + result.open_boxes = Len(boxes)

\* statistics taken while the first box is full and the second is not
C24_Witness ==
    /\ call.op = "get_statistics"
    /\ result.closed_boxes = 1 /\ result.open_boxes = 1
    /\ Len(boxes[1].pieces) = MAX_CAPACITY

\* C25: a box that is not the last never gains a piece and, once open, is
\* never closed again: register adds to the last box only, so a box reopened
\* by a removal stays open, beside the open last box.
C25_ReopenedBoxStaysOpen ==
    [][\A i \in 1..(Len(boxes) - 1) :
           /\ Len(boxes'[i].pieces) <= Len(boxes[i].pieces)
           /\ ~boxes[i].closed => ~boxes'[i].closed]_vars

\* an approved piece has just been registered while the first box, reopened
\* by a removal, had room: two boxes are open
C25_Witness ==
    /\ call.op = "register_piece" /\ result.approved
    /\ Len(boxes) = 2
    /\ ~boxes[1].closed /\ Len(boxes[1].pieces) = MAX_CAPACITY - 1
    /\ ~boxes[2].closed /\ boxes[2].pieces = <<result.piece>>

\* the piece of the last register call is the 10th of the box it went to
BecameTenth ==
    /\ "current_box" \in DOMAIN result
    /\ Len(boxes[result.current_box].pieces) = MAX_CAPACITY
    /\ boxes[result.current_box].pieces[MAX_CAPACITY] = result.piece

\* C26: in the result of register_piece box_closed equals new_box_created,
\* both true exactly when the piece was approved and became the 10th of the
\* current box; current_box is a key exactly when the piece was approved and
\* new_box exactly when new_box_created is true.
C26_RegisterResultFlags ==
    call.op = "register_piece" =>
        /\ result.box_closed = result.new_box_created
        /\ result.box_closed <=> (result.approved /\ BecameTenth)
        /\ "current_box" \in DOMAIN result <=> result.approved
        /\ "new_box" \in DOMAIN result <=> result.new_box_created

\* a register call has just closed a box and opened the next
C26_Witness ==
    /\ call.op = "register_piece"
    /\ result.box_closed /\ result.new_box_created
    /\ result.new_box = Len(boxes) /\ result.current_box = Len(boxes) - 1

\* the approved pieces ever registered, in registration order
ApprovedInOrder ==
    SelectSeq([p \in 1..Len(heap) |-> p], LAMBDA p : heap[p].approved)

\* C27: with no removals, after k approved pieces there are k \div 10 + 1
\* boxes; the first k \div 10 are closed with 10 pieces each, the last is
\* open with k % 10 pieces, and the boxes hold the approved pieces in
\* registration order.
C27_BoxesAfterKApproved ==
    Removed = 0 =>
        LET k == Len(ApprovedInOrder)
            full == k \div MAX_CAPACITY
        IN  /\ Len(boxes) = full + 1
            /\ \A i \in 1..full :
                   boxes[i].closed /\ Len(boxes[i].pieces) = MAX_CAPACITY
            /\ ~boxes[full + 1].closed
            /\ Len(boxes[full + 1].pieces) = k % MAX_CAPACITY
            /\ \A i \in 1..Len(boxes) :
                   \A j \in 1..Len(boxes[i].pieces) :
                       boxes[i].pieces[j]
                           = ApprovedInOrder[(i - 1) * MAX_CAPACITY + j]

\* no removal, a rejected piece among the registrations, and 10 approved
\* pieces: the first box is closed and the second is open and empty
C27_Witness ==
    /\ Removed = 0
    /\ Len(ApprovedInOrder) = MAX_CAPACITY
    /\ \E p \in 1..(Len(heap) - 1) : ~heap[p].approved
    /\ Len(boxes) = 2 /\ boxes[2].pieces = <<>>

====
